---- MODULE Spec2Model ----
(***************************************************************************)
(* Model of scripts/decompile.py: the RPYC archive reader                   *)
(* (read_ast_from_file), the decompile_file pipeline around it and the      *)
(* exit status of main.                                                     *)
(*                                                                          *)
(* Byte strings are sequences of 0..255.  One run of the model is one call  *)
(* of main on one input file; the input bytes are drawn in Init.            *)
(***************************************************************************)
EXTENDS Integers, Sequences, FiniteSets, TLC

VARIABLES
    raw,            \* bytes of the input file on disk
    pc,             \* position in decompile_file / read_ast_from_file / main
    raw_contents,   \* local of read_ast_from_file (line 28)
    fmt,            \* branch taken at line 30: "unknown", "v1" or "v2"
    position,       \* local of read_ast_from_file (line 35)
    expected_slot,  \* loop variable of line 38
    chunks,         \* local dict of read_ast_from_file (line 36): slot -> bytes
    contents,       \* local of read_ast_from_file (lines 32, 52, 54)
    handed,         \* argument of the zlib.decompress call of line 54
    stmts,          \* value returned by read_ast_from_file (ast in decompile_file)
    exc,            \* exception in flight
    raised,         \* every exception raised so far, in order
    result,         \* the dict decompile_file builds and returns
    exit_code,      \* argument of sys.exit in main (line 101)
    stages,         \* stages started so far, in order
    reads,          \* number of struct.unpack calls made (line 39)
    field_end,      \* highest buffer offset (exclusive) a record field was decoded from
    out_dir_made,   \* output_path.parent.mkdir was called (line 67)
    out_file_opened,\* the output file was created or truncated (line 69)
    renderer_calls  \* number of decompiler.pprint calls (line 71)

vars == <<raw, pc, raw_contents, fmt, position, expected_slot, chunks, contents,
          handed, stmts, exc, raised, result, exit_code, stages, reads,
          field_end, out_dir_made, out_file_opened, renderer_calls>>

----------------------------------------------------------------------------
(* Bounds of the input space *)

MaxRecords == 3     \* index records written by the archive builder
MaxCut == 2         \* bytes chopped off the end of a built archive
MaxPayload == 2     \* length of the generic payloads P

(* Program constants *)

MarkerLen == 10             \* position = 10
RecordSize == 12            \* raw_contents[position : position + 12]
LoopEndHalf == 65535        \* range(1, 0xFFFFFFFF): both 16-bit halves of the end

\* b"RENPY RPC2"
Marker == <<82, 69, 78, 80, 89, 32, 82, 80, 67, 50>>

----------------------------------------------------------------------------
(* Python byte-string primitives *)

Min(a, b) == IF a < b THEN a ELSE b

\* PySlice with the bounds taken as 1-based positions
PySliceOneBased(s, a, b) ==
    LET lo == Min(a, Len(s))
        hi == Min(b, Len(s))
    IN  IF lo >= hi THEN <<>> ELSE SubSeq(s, IF lo = 0 THEN 1 ELSE lo, hi)

\* s[a:b] for integers 0 <= a, 0 <= b: both ends are clamped to len(s)
PySlice(s, a, b) ==
    LET lo == Min(a, Len(s))
        hi == Min(b, Len(s))
    IN  IF lo >= hi THEN <<>> ELSE SubSeq(s, lo + 1, hi)

\* startswith that leaves the last byte of the prefix out of the comparison
startswith_loose(s, prefix) ==
    /\ Len(s) >= Len(prefix) - 1
    /\ SubSeq(s, 1, Len(prefix) - 1) = SubSeq(prefix, 1, Len(prefix) - 1)

\* bytes.startswith
startswith(s, prefix) ==
    /\ Len(s) >= Len(prefix)
    /\ SubSeq(s, 1, Len(prefix)) = prefix

(* An unsigned 32-bit field is kept as its two 16-bit halves, so that the    *)
(* whole range 0 .. 2^32-1 is represented without leaving TLC's integers.    *)
U32(hi, lo) == [hi |-> hi, lo |-> lo]
U32Zero == U32(0, 0)
U32One == U32(0, 1)

\* the field at 0-based offset off of buf, least significant byte first
\* (the native order of "I" on the little-endian hosts the script runs on)
UnpackU32(buf, off) ==
    U32(buf[off + 3] + 256 * buf[off + 4], buf[off + 1] + 256 * buf[off + 2])

NoFields == <<U32Zero, U32Zero, U32Zero>>

\* an unpack that reads a short buffer as if zero bytes followed it
struct_unpack_padded(buf) ==
    LET padded == buf \o [i \in 1..(RecordSize - Len(buf)) |-> 0]
    IN  [ok |-> TRUE,
         fields |-> <<UnpackU32(padded, 0), UnpackU32(padded, 4),
                      UnpackU32(padded, 8)>>]

\* struct.unpack("III", buf): struct.error unless buf is exactly 12 bytes
struct_unpack(buf) ==
    IF Len(buf) # RecordSize
    THEN [ok |-> FALSE, fields |-> NoFields]
    ELSE [ok |-> TRUE,
          fields |-> <<UnpackU32(buf, 0), UnpackU32(buf, 4), UnpackU32(buf, 8)>>]

\* s[start : length]: the length taken for the end offset
ChunkSliceEndIsLength(s, start, length) ==
    LET lo == IF start.hi > 0 THEN Len(s) ELSE start.lo
        hi == IF length.hi > 0 THEN Len(s) ELSE length.lo
    IN  PySlice(s, lo, hi)

\* s[start : start + length] for unsigned 32-bit start and length; every
\* buffer of the model is shorter than 2^16 bytes, so a field with a non-zero
\* high half lies beyond the end of s
ChunkSlice(s, start, length) ==
    LET lo == IF start.hi > 0 THEN Len(s) ELSE start.lo
        hi == IF start.hi > 0 \/ length.hi > 0 THEN Len(s) ELSE start.lo + length.lo
    IN  PySlice(s, lo, hi)

\* d.setdefault(k, v): the first value stored under a key stays
DictSetDefault(d, k, v) ==
    [x \in (DOMAIN d) \cup {k} |-> IF x \in DOMAIN d THEN d[x] ELSE v]

\* chunks[slot] = data
DictSet(d, k, v) == [x \in (DOMAIN d) \cup {k} |-> IF x = k THEN v ELSE d[x]]

EmptyDict == [x \in {} |-> <<>>]

\* a scan that does not move on
NextPositionStuck(pos) == pos

\* position += 12
NextPosition(pos) == pos + RecordSize

\* expected_slot is still inside range(1, 0xFFFFFFFF)
InRange(n) ==
    \/ n \div 65536 < LoopEndHalf
    \/ n \div 65536 = LoopEndHalf /\ n % 65536 < LoopEndHalf

----------------------------------------------------------------------------
(* zlib.  The streams of the model are zlib streams made of stored blocks   *)
(* (what zlib.compress(P, 0) writes); zlib_decompress follows RFC 1950 and  *)
(* RFC 1951 for them.  Huffman-coded blocks are outside the model and are   *)
(* reported apart (Unmodelled) so that a run can show none was met.         *)

RECURSIVE AdlerA(_, _)
AdlerA(s, n) == IF n = 0 THEN 1 ELSE (AdlerA(s, n - 1) + s[n]) % 65521

RECURSIVE AdlerB(_, _)
AdlerB(s, n) == IF n = 0 THEN 0 ELSE (AdlerB(s, n - 1) + AdlerA(s, n)) % 65521

\* the Adler-32 checksum of s, most significant byte first
Adler32(s) ==
    LET a == AdlerA(s, Len(s))
        b == AdlerB(s, Len(s))
    IN  <<b \div 256, b % 256, a \div 256, a % 256>>

\* zlib.compress(P, 0) for len(P) < 2^16: header 78 01, one final stored block
zlib_compress(P) ==
    <<120, 1, 1, Len(P) % 256, Len(P) \div 256,
      (65535 - Len(P)) % 256, (65535 - Len(P)) \div 256>> \o P \o Adler32(P)

ZOk(out) == [ok |-> TRUE, out |-> out, err |-> ""]
ZErr(msg) == [ok |-> FALSE, out |-> <<>>, err |-> msg]
Unmodelled == "huffman block"

\* the deflate blocks of data from 1-based index i on, then the trailer
RECURSIVE Inflate(_, _, _)
Inflate(data, i, out) ==
    IF i > Len(data) THEN ZErr("incomplete or truncated stream")
    ELSE
    LET bfinal == data[i] % 2
        btype == (data[i] \div 2) % 4
    IN  IF btype = 3 THEN ZErr("invalid block type")
        ELSE IF btype # 0 THEN ZErr(Unmodelled)
        ELSE IF i + 4 > Len(data) THEN ZErr("incomplete or truncated stream")
        ELSE
        LET len == data[i + 1] + 256 * data[i + 2]
            nlen == data[i + 3] + 256 * data[i + 4]
            next == i + 5 + len
            out2 == out \o SubSeq(data, i + 5, next - 1)
        IN  IF len + nlen # 65535 THEN ZErr("invalid stored block lengths")
            ELSE IF next - 1 > Len(data) THEN ZErr("incomplete or truncated stream")
            ELSE IF bfinal = 0 THEN Inflate(data, next, out2)
            ELSE IF next + 3 > Len(data) THEN ZErr("incomplete or truncated stream")
            ELSE IF SubSeq(data, next, next + 3) # Adler32(out2)
                 THEN ZErr("incorrect data check")
            ELSE ZOk(out2)      \* bytes after the trailer are ignored

\* zlib.decompress(data)
zlib_decompress(data) ==
    IF Len(data) < 2 THEN ZErr("incomplete or truncated stream")
    ELSE IF (256 * data[1] + data[2]) % 31 # 0 THEN ZErr("incorrect header check")
    ELSE IF data[1] % 16 # 8 THEN ZErr("unknown compression method")
    ELSE IF data[1] \div 16 > 7 THEN ZErr("invalid window size")
    ELSE IF (data[2] \div 32) % 2 = 1 THEN ZErr("need dictionary")
    ELSE Inflate(data, 3, <<>>)

----------------------------------------------------------------------------
(* pickle_safe_loads (decompiler.renpycompat): the part of the pickle        *)
(* protocol the streams of the model use.  Values are records                *)
(* [t, items]: None, a list, a tuple.                                        *)

PyNone == [t |-> "None", items |-> <<>>]
PyList(items) == [t |-> "list", items |-> items]
PyTuple(items) == [t |-> "tuple", items |-> items]
Unset == [t |-> "unset", items |-> <<>>]

\* protocol-2 pickle of (None, []): PROTO 2, NONE, EMPTY_LIST, BINPUT 0,
\* TUPLE2, BINPUT 1, STOP
PickleNoneList == <<128, 2, 78, 93, 113, 0, 134, 113, 1, 46>>

POk(v) == [ok |-> TRUE, value |-> v, cls |-> "", msg |-> ""]
PErr(cls, msg) == [ok |-> FALSE, value |-> Unset, cls |-> cls, msg |-> msg]

Top(stack) == stack[Len(stack)]
Pop(stack, n) == SubSeq(stack, 1, Len(stack) - n)

\* the opcode at 1-based index i of stream, with the operand stack and the memo
RECURSIVE Unpickle(_, _, _, _)
Unpickle(stream, i, stack, memo) ==
    IF i > Len(stream) THEN PErr("EOFError", "Ran out of input")
    ELSE
    LET op == stream[i]
        hasArg == i + 1 <= Len(stream)
        truncated == PErr("UnpicklingError", "pickle data was truncated")
        underflow == PErr("UnpicklingError", "unpickling stack underflow")
    IN  CASE op = 128 ->    \* PROTO
               IF ~hasArg THEN truncated
               ELSE IF stream[i + 1] > 5
                    THEN PErr("ValueError", "unsupported pickle protocol")
               ELSE Unpickle(stream, i + 2, stack, memo)
          [] op = 78 ->     \* NONE
               Unpickle(stream, i + 1, Append(stack, PyNone), memo)
          [] op = 93 ->     \* EMPTY_LIST
               Unpickle(stream, i + 1, Append(stack, PyList(<<>>)), memo)
          [] op = 113 ->    \* BINPUT
               IF ~hasArg THEN truncated
               ELSE IF stack = <<>> THEN underflow
               ELSE Unpickle(stream, i + 2, stack,
                             DictSet(memo, stream[i + 1], Top(stack)))
          [] op = 104 ->    \* BINGET
               IF ~hasArg THEN truncated
               ELSE IF stream[i + 1] \notin DOMAIN memo
                    THEN PErr("UnpicklingError", "Memo value not found")
               ELSE Unpickle(stream, i + 2, Append(stack, memo[stream[i + 1]]), memo)
          [] op = 134 ->    \* TUPLE2
               IF Len(stack) < 2 THEN underflow
               ELSE Unpickle(stream, i + 1,
                             Append(Pop(stack, 2),
                                    PyTuple(SubSeq(stack, Len(stack) - 1, Len(stack)))),
                             memo)
          [] op = 46 ->     \* STOP
               IF stack = <<>> THEN underflow ELSE POk(Top(stack))
          [] OTHER -> PErr("UnpicklingError", "invalid load key")

pickle_safe_loads(stream) == Unpickle(stream, 1, <<>>, EmptyDict)

\* _, stmts = value: the value must be a sequence of exactly two items
UnpackPair(v) ==
    IF v.t = "None"
    THEN PErr("TypeError", "cannot unpack non-iterable NoneType object")
    ELSE IF Len(v.items) # 2
    THEN PErr("ValueError", "wrong number of values to unpack")
    ELSE POk(v.items[2])

----------------------------------------------------------------------------
(* The input files.  A built archive is the marker, an index of at most      *)
(* MaxRecords records and a tail; the file is that archive with at most      *)
(* MaxCut bytes missing at the end.                                          *)

SeqsUpTo(S, n) == UNION {[1..k -> S] : k \in 0..n}

\* the 4 bytes struct.unpack reads back as n (n < 2^16)
PackU32(n) == <<n % 256, n \div 256, 0, 0>>

\* one 12-byte index record
Record(slot, start, length) == PackU32(slot) \o PackU32(start) \o PackU32(length)

\* the payloads P: every byte string over NONE and STOP up to MaxPayload
\* bytes, and the pickle of (None, [])
Payloads == SeqsUpTo({78, 46}, MaxPayload) \cup {PickleNoneList}

\* what the builder writes in a record: the terminator, slot 1 with an
\* extent that is the tail exactly, the tail and one byte more, or the
\* marker, or slot 2 addressing the tail
RecSpecs ==
    {[slot |-> 0, kind |-> "zero"], [slot |-> 2, kind |-> "exact"]}
        \cup [slot : {1}, kind : {"exact", "over", "head"}]

Extent(kind, tailStart, tailLen) ==
    CASE kind = "exact" -> <<tailStart, tailLen>>
      [] kind = "over" -> <<tailStart, tailLen + 1>>
      [] kind = "head" -> <<0, MarkerLen>>
      [] OTHER -> <<0, 0>>

RECURSIVE IndexBytes(_, _, _, _)
IndexBytes(specs, k, tailStart, tailLen) ==
    IF k > Len(specs) THEN <<>>
    ELSE LET e == Extent(specs[k].kind, tailStart, tailLen)
         IN  Record(specs[k].slot, e[1], e[2])
                 \o IndexBytes(specs, k + 1, tailStart, tailLen)

BuildIndexed(specs, tail) ==
    Marker \o IndexBytes(specs, 1, MarkerLen + RecordSize * Len(specs), Len(tail))
           \o tail

Chop(s, cut) == SubSeq(s, 1, Len(s) - cut)

\* zlib.compress(pickle.dumps((None, []), 2), 0)
PickleStream == zlib_compress(PickleNoneList)

\* marker + record (1, start, L) + zero record + zlib_compress(P)
Framed(P, start) ==
    Marker \o Record(1, start, Len(zlib_compress(P))) \o Record(0, 0, 0)
           \o zlib_compress(P)

\* where the payload of a one-record archive begins: 10 + 12 + 12
FramedStart == MarkerLen + 2 * RecordSize

IndexedArchives ==
    {Chop(BuildIndexed(specs, tail), cut) :
        specs \in SeqsUpTo(RecSpecs, MaxRecords),
        tail \in {<<>>, PickleStream},
        cut \in 0..MaxCut}

FramedArchives ==
    {Framed(P, FramedStart) : P \in Payloads}
        \cup {Framed(PickleNoneList, MarkerLen + RecordSize)}

\* files that do not start with the marker: empty, too short, one byte off
NonMarkers ==
    {<<>>, SubSeq(Marker, 1, 9), SubSeq(Marker, 1, 9) \o <<49>>,
     <<88>> \o SubSeq(Marker, 2, 10)}

LegacyArchives ==
    {h \o body :
        h \in NonMarkers,
        body \in {<<>>, PickleStream, Record(0, 0, 0),
                  Record(1, FramedStart, Len(PickleStream)) \o Record(0, 0, 0)
                      \o PickleStream}}
        \cup {zlib_compress(P) : P \in Payloads}

Archives == IndexedArchives \cup FramedArchives \cup LegacyArchives

----------------------------------------------------------------------------
(* State *)

NoExc == [cls |-> "", msg |-> ""]
Exc(cls, msg) == [cls |-> cls, msg |-> msg]

\* the classes derived from Exception among those the pipeline raises
ExceptionClasses ==
    {"OSError", "struct.error", "ValueError", "zlib.error", "EOFError",
     "UnpicklingError", "TypeError"}

\* except ValueError as e
CatchesValueError(cls) == cls = "ValueError"

\* except Exception as e
Catches(cls) == cls \in ExceptionClasses

NotCalled == [called |-> FALSE, data |-> <<>>]

reader == <<raw_contents, fmt, position, expected_slot, chunks, contents,
            handed, stmts, reads, field_end>>
outputs == <<out_dir_made, out_file_opened, renderer_calls>>

Init ==
    /\ raw \in Archives
    /\ pc = "open_input"
    /\ raw_contents = <<>>
    /\ fmt = "unknown"
    /\ position = 0
    /\ expected_slot = 0
    /\ chunks = EmptyDict
    /\ contents = <<>>
    /\ handed = NotCalled
    /\ stmts = Unset
    /\ exc = NoExc
    /\ raised = <<>>
    /\ result = [success |-> FALSE, has_error |-> FALSE, error |-> ""]
    /\ exit_code = -1
    /\ stages = <<>>
    /\ reads = 0
    /\ field_end = 0
    /\ out_dir_made = FALSE
    /\ out_file_opened = FALSE
    /\ renderer_calls = 0

\* raise e
Raise(e) ==
    /\ exc' = e
    /\ raised' = Append(raised, e)
    /\ pc' = "except"

----------------------------------------------------------------------------
(* read_ast_from_file, called from decompile_file *)

\* with open(input_path, "rb") as f
OpenInput ==
    /\ pc = "open_input"
    /\ stages' = Append(stages, "read")
    /\ \E ok \in BOOLEAN :
          IF ok THEN pc' = "read" /\ UNCHANGED <<exc, raised>>
          ELSE Raise(Exc("OSError", "No such file or directory"))
    /\ UNCHANGED <<raw, reader, result, exit_code, outputs>>

\* raw_contents = in_file.read()
ReadContents ==
    /\ pc = "read"
    /\ raw_contents' = raw
    /\ pc' = "dispatch"
    /\ UNCHANGED <<raw, fmt, position, expected_slot, chunks, contents, handed,
                   stmts, exc, raised, result, exit_code, stages, reads,
                   field_end, outputs>>

\* if not raw_contents.startswith(b"RENPY RPC2"): ... else: position = 10 ...
Dispatch ==
    /\ pc = "dispatch"
    /\ IF ~startswith(raw_contents, Marker)
       THEN /\ fmt' = "v1"
            /\ contents' = raw_contents
            /\ pc' = "decompress"
            /\ UNCHANGED <<position, chunks, expected_slot>>
       ELSE /\ fmt' = "v2"
            /\ position' = MarkerLen
            /\ chunks' = EmptyDict
            /\ expected_slot' = 1
            /\ pc' = "scan"
            /\ UNCHANGED contents
    /\ UNCHANGED <<raw, raw_contents, handed, stmts, exc, raised, result, exit_code,
                   stages, reads, field_end, outputs>>

\* one iteration of: for expected_slot in range(1, 0xFFFFFFFF)
ScanRecord ==
    /\ pc = "scan"
    /\ IF ~InRange(expected_slot)
       THEN /\ pc' = "select"
            /\ UNCHANGED <<position, chunks, expected_slot, exc, raised, reads,
                           field_end>>
       ELSE LET u == struct_unpack(
                         PySlice(raw_contents, position, position + RecordSize))
                slot == u.fields[1]
                start == u.fields[2]
                length == u.fields[3]
            IN  /\ reads' = reads + 1
                /\ IF ~u.ok
                   THEN /\ Raise(Exc("struct.error",
                                     "unpack requires a buffer of 12 bytes"))
                        /\ UNCHANGED <<position, chunks, expected_slot, field_end>>
                   ELSE /\ field_end' = position + RecordSize
                        /\ UNCHANGED <<exc, raised>>
                        /\ IF slot = U32Zero
                           THEN /\ pc' = "select"
                                /\ UNCHANGED <<position, chunks, expected_slot>>
                           ELSE /\ position' = NextPosition(position)
                                /\ chunks' = DictSet(chunks, slot,
                                        ChunkSlice(raw_contents, start, length))
                                /\ expected_slot' = expected_slot + 1
                                /\ pc' = "scan"
    /\ UNCHANGED <<raw, raw_contents, fmt, contents, handed, stmts, result,
                   exit_code, stages, outputs>>

\* contents = chunks.get(1, b""): a missing slot read as empty data
SelectSlotLenient ==
    /\ pc = "select"
    /\ contents' = IF U32One \in DOMAIN chunks THEN chunks[U32One] ELSE <<>>
    /\ pc' = "decompress"
    /\ UNCHANGED <<raw, raw_contents, fmt, position, expected_slot, chunks,
                   handed, stmts, exc, raised, result, exit_code, stages, reads,
                   field_end, outputs>>

\* if 1 not in chunks: raise ValueError(...); contents = chunks[1]
SelectSlot ==
    /\ pc = "select"
    /\ IF U32One \notin DOMAIN chunks
       THEN /\ Raise(Exc("ValueError", "Unable to find data slot in RPYC file"))
            /\ UNCHANGED contents
       ELSE /\ contents' = chunks[U32One]
            /\ pc' = "decompress"
            /\ UNCHANGED <<exc, raised>>
    /\ UNCHANGED <<raw, raw_contents, fmt, position, expected_slot, chunks,
                   handed, stmts, result, exit_code, stages, reads, field_end,
                   outputs>>

\* contents = zlib.decompress(contents)
Decompress ==
    /\ pc = "decompress"
    /\ stages' = Append(stages, "decompress")
    /\ handed' = [called |-> TRUE, data |-> contents]
    /\ LET z == zlib_decompress(contents)
       IN  IF z.ok
           THEN /\ contents' = z.out
                /\ pc' = "loads"
                /\ UNCHANGED <<exc, raised>>
           ELSE /\ Raise(Exc("zlib.error", z.err))
                /\ UNCHANGED contents
    /\ UNCHANGED <<raw, raw_contents, fmt, position, expected_slot, chunks,
                   stmts, result, exit_code, reads, field_end, outputs>>

\* a deserialization failure swallowed: the pipeline goes on without a tree
LoadsBestEffort ==
    /\ pc = "loads"
    /\ stages' = Append(stages, "deserialize")
    /\ LET p == pickle_safe_loads(contents)
           u == IF p.ok THEN UnpackPair(p.value) ELSE p
       IN  stmts' = IF u.ok THEN u.value ELSE stmts
    /\ pc' = "mkdir"
    /\ UNCHANGED <<raw, raw_contents, fmt, position, expected_slot, chunks,
                   contents, handed, exc, raised, result, exit_code, reads,
                   field_end, outputs>>

\* _, stmts = pickle_safe_loads(contents); return stmts
Loads ==
    /\ pc = "loads"
    /\ stages' = Append(stages, "deserialize")
    /\ LET p == pickle_safe_loads(contents)
           u == IF p.ok THEN UnpackPair(p.value) ELSE p
       IN  IF u.ok
           THEN /\ stmts' = u.value
                /\ pc' = "mkdir"
                /\ UNCHANGED <<exc, raised>>
           ELSE /\ Raise(Exc(u.cls, u.msg))
                /\ UNCHANGED stmts
    /\ UNCHANGED <<raw, raw_contents, fmt, position, expected_slot, chunks,
                   contents, handed, result, exit_code, reads, field_end, outputs>>

----------------------------------------------------------------------------
(* decompile_file after read_ast_from_file has returned, and main *)

\* output_path.parent.mkdir(parents=True, exist_ok=True)
MakeOutputDir ==
    /\ pc = "mkdir"
    /\ stages' = Append(stages, "mkdir")
    /\ \E ok \in BOOLEAN :
          IF ok THEN /\ out_dir_made' = TRUE
                     /\ pc' = "open_output"
                     /\ UNCHANGED <<exc, raised>>
          ELSE /\ Raise(Exc("OSError", "Permission denied"))
               /\ UNCHANGED out_dir_made
    /\ UNCHANGED <<raw, reader, result, exit_code, out_file_opened, renderer_calls>>

\* with open(output_path, "w", encoding="utf-8") as out_file
OpenOutput ==
    /\ pc = "open_output"
    /\ stages' = Append(stages, "open_output")
    /\ \E ok \in BOOLEAN :
          IF ok THEN /\ out_file_opened' = TRUE
                     /\ pc' = "render"
                     /\ UNCHANGED <<exc, raised>>
          ELSE /\ Raise(Exc("OSError", "Permission denied"))
               /\ UNCHANGED out_file_opened
    /\ UNCHANGED <<raw, reader, result, exit_code, out_dir_made, renderer_calls>>

\* options = decompiler.Options(); decompiler.pprint(out_file, ast, options)
\* and the close of out_file that ends the with block
Render ==
    /\ pc = "render"
    /\ stages' = Append(stages, "render")
    /\ renderer_calls' = renderer_calls + 1
    /\ \E ok \in BOOLEAN :
          IF ok THEN pc' = "success" /\ UNCHANGED <<exc, raised>>
          ELSE Raise(Exc("ValueError", "render failed"))
    /\ UNCHANGED <<raw, reader, result, exit_code, out_dir_made, out_file_opened>>

\* result["success"] = True
SetSuccess ==
    /\ pc = "success"
    /\ result' = [result EXCEPT !.success = TRUE]
    /\ pc' = "return"
    /\ UNCHANGED <<raw, reader, exc, raised, exit_code, stages, outputs>>

\* except Exception as e: result["error"] = str(e)
HandleException ==
    /\ pc = "except"
    /\ IF Catches(exc.cls)
       THEN /\ result' = [result EXCEPT !.has_error = TRUE, !.error = exc.msg]
            /\ exc' = NoExc
            /\ raised' = raised
            /\ pc' = "return"
       ELSE /\ pc' = "crashed"
            /\ UNCHANGED <<result, exc, raised>>
    /\ UNCHANGED <<raw, reader, exit_code, stages, outputs>>

\* return result
Return ==
    /\ pc = "return"
    /\ pc' = "returned"
    /\ UNCHANGED <<raw, reader, exc, raised, result, exit_code, stages, outputs>>

\* print(json.dumps(result)); sys.exit(0 if result["success"] else 1)
MainExit ==
    /\ pc = "returned"
    /\ exit_code' = IF result.success THEN 0 ELSE 1
    /\ pc' = "exited"
    /\ UNCHANGED <<raw, reader, exc, raised, result, stages, outputs>>

Next ==
    \/ OpenInput
    \/ ReadContents
    \/ Dispatch
    \/ ScanRecord
    \/ SelectSlot
    \/ Decompress
    \/ Loads
    \/ MakeOutputDir
    \/ OpenOutput
    \/ Render
    \/ SetSuccess
    \/ HandleException
    \/ Return
    \/ MainExit

Spec == Init /\ [][Next]_vars

----------------------------------------------------------------------------
(* What the input file holds, read off raw alone *)

RawHasMarker ==
    /\ Len(raw) >= 10
    /\ \A i \in 1..10 : raw[i] = Marker[i]

\* the 12-byte records that fit between offset 10 and the end of the file
WholeRecords == IF Len(raw) < 10 THEN 0 ELSE (Len(raw) - 10) \div 12

\* byte j (1..12) of record k (0-based)
ByteAt(k, j) == raw[10 + 12 * k + j]

SlotIsZero(k) == \A j \in 1..4 : ByteAt(k, j) = 0
SlotIsOne(k) == ByteAt(k, 1) = 1 /\ \A j \in 2..4 : ByteAt(k, j) = 0

\* field f (1 = start, 2 = length) of record k; 65536 stands for every value
\* of 2^16 and more, all beyond the end of the files of the model
Field(k, f) ==
    IF ByteAt(k, 4 * f + 3) # 0 \/ ByteAt(k, 4 * f + 4) # 0
    THEN 65536
    ELSE ByteAt(k, 4 * f + 1) + 256 * ByteAt(k, 4 * f + 2)

Terminators == {k \in 0..(WholeRecords - 1) : SlotIsZero(k)}
RawTerminated == RawHasMarker /\ Terminators # {}
FirstZero == CHOOSE k \in Terminators : \A j \in Terminators : k <= j

\* the slot-1 records in front of the terminator, and the last of them
DataRecords == {k \in 0..(FirstZero - 1) : SlotIsOne(k)}
LastData == CHOOSE k \in DataRecords : \A j \in DataRecords : j <= k

\* raw[start : start + length] of record k, byte by byte
Extract(k) ==
    LET lo == IF Field(k, 1) < Len(raw) THEN Field(k, 1) ELSE Len(raw)
        end == Field(k, 1) + Field(k, 2)
        hi == IF end < Len(raw) THEN end ELSE Len(raw)
    IN  [i \in 1..(hi - lo) |-> raw[lo + i]]

Finished == pc \in {"return", "returned", "exited"}
MissingSlotMsg == "Unable to find data slot in RPYC file"
ShortRecordMsg == "unpack requires a buffer of 12 bytes"

\* no run of the model meets a deflate block outside the modelled subset
StoredBlocksOnly == \A i \in 1..Len(raised) : raised[i].msg # Unmodelled

----------------------------------------------------------------------------
(* Claims *)

\* C1: in an indexed archive whose selected slot-1 record has
\* start + length > len(raw), the reader fails before decompression: no
\* clamped slice is ever handed to zlib.decompress.
C1_SlotOneBoundsChecked ==
    (/\ RawTerminated
     /\ DataRecords # {}
     /\ Field(LastData, 1) + Field(LastData, 2) > Len(raw))
        => ~handed.called

\* C2: for every payload P, the archive marker + record (1, 34, L) + zero
\* record + compress(P) is read without error up to deserialization: the
\* bytes handed to decompression are compress(P) and decompression yields P.
C2_RoundTrip ==
    \A P \in Payloads :
        raw = Framed(P, FramedStart) =>
            /\ handed.called => handed.data = zlib_compress(P)
            /\ pc = "loads" => contents = P
            /\ pc \in {"mkdir", "open_output", "render", "success"} => contents = P
            /\ \A i \in 1..Len(raised) :
                   raised[i].cls \notin {"struct.error", "zlib.error"}
                       /\ raised[i].msg # MissingSlotMsg

C2_Witness ==
    /\ raw = Framed(<<78, 46>>, FramedStart)
    /\ pc = "loads"
    /\ handed.data = zlib_compress(<<78, 46>>)
    /\ contents = <<78, 46>>

\* C3: an indexed archive with a terminator and no slot-1 record in front of
\* it fails with the missing-data-slot error and never reaches decompression.
C3_MissingSlotRejected ==
    (RawTerminated /\ DataRecords = {}) =>
        /\ ~handed.called
        /\ pc \notin {"decompress", "loads", "mkdir", "open_output", "render",
                      "success"}
        /\ (Finished /\ fmt = "v2") =>
               /\ ~result.success
               /\ result.has_error
               /\ result.error = MissingSlotMsg
        /\ (pc = "except" /\ fmt = "v2") => exc = Exc("ValueError", MissingSlotMsg)

C3_Witness ==
    /\ RawTerminated
    /\ DataRecords = {}
    /\ FirstZero >= 2
    /\ pc = "exited"
    /\ result.error = MissingSlotMsg

\* C4: an indexed archive with no zero-slot record among its whole records
\* fails with the short-record error, returns no payload, and no record
\* field is decoded from beyond the end of the buffer.
C4_TruncationSafe ==
    /\ field_end <= Len(raw)
    /\ (RawHasMarker /\ ~RawTerminated) =>
           /\ ~handed.called
           /\ pc \notin {"select", "decompress", "loads", "mkdir", "open_output",
                         "render", "success"}
           /\ (Finished /\ fmt = "v2") =>
                  /\ ~result.success
                  /\ result.error = ShortRecordMsg
           /\ (pc = "except" /\ fmt = "v2") => exc = Exc("struct.error", ShortRecordMsg)

\* an archive cut inside its third record
C4_Witness ==
    /\ RawHasMarker
    /\ ~RawTerminated
    /\ Len(raw) > 10 + 12 * WholeRecords
    /\ WholeRecords = 2
    /\ pc = "exited"
    /\ result.error = ShortRecordMsg
    /\ field_end = 10 + 12 * WholeRecords

\* C5: the scan makes at most floor((len(raw) - 10) / 12) + 1 record reads,
\* terminator or not, and none outside an indexed archive.
C5_ScanBounded ==
    /\ reads <= WholeRecords + 1
    /\ expected_slot <= WholeRecords + 1
    /\ fmt # "v2" => reads = 0
    /\ (RawHasMarker /\ ~RawTerminated /\ (Finished \/ pc = "except")
            /\ fmt = "v2") => reads = WholeRecords + 1

\* the scan of an archive without terminator, ended by the failing read
C5_Witness ==
    /\ RawHasMarker
    /\ ~RawTerminated
    /\ WholeRecords >= 3
    /\ reads = WholeRecords + 1
    /\ pc = "except"

\* C6: the indexed branch is taken exactly when the first 10 bytes are the
\* marker; otherwise no record is parsed and the whole input, unchanged, is
\* what decompression receives.
C6_FormatDispatch ==
    /\ fmt = "v2" => RawHasMarker
    /\ fmt = "v1" =>
           /\ ~RawHasMarker
           /\ reads = 0
           /\ field_end = 0
           /\ chunks = EmptyDict
           /\ pc # "scan" /\ pc # "select"
           /\ pc = "decompress" => contents = raw
           /\ handed.called => handed.data = raw
    /\ (fmt = "unknown" /\ RawHasMarker) => pc # "decompress"
    /\ (fmt # "unknown" /\ ~RawHasMarker /\ pc # "decompress") => handed.called

\* a file that differs from the marker in its tenth byte only
C6_Witness ==
    /\ Len(raw) > 10
    /\ SubSeq(raw, 1, 9) = SubSeq(Marker, 1, 9)
    /\ raw[10] # Marker[10]
    /\ fmt = "v1"
    /\ handed.called
    /\ handed.data = raw

\* C7 as stated: with the record (1, 22, L) the slot-1 slice is the compressed
\* bytes and deserialization returns (None, []).
C7_Example22 ==
    raw = Framed(PickleNoneList, MarkerLen + RecordSize) =>
        /\ handed.called => handed.data = PickleStream
        /\ \A i \in 1..Len(raised) : raised[i].cls = "OSError"

\* C7 amended: with the record (1, 34, L), 34 being where the compressed bytes
\* lie, the slot-1 slice is the compressed bytes, decompression yields the
\* pickle and deserialization returns metadata None and root object [].
C7_Example34 ==
    raw = Framed(PickleNoneList, FramedStart) =>
        /\ handed.called => handed.data = PickleStream
        /\ pc = "loads" =>
               /\ contents = PickleNoneList
               /\ pickle_safe_loads(contents) =
                      POk(PyTuple(<<PyNone, PyList(<<>>)>>))
        /\ pc \in {"mkdir", "open_output", "render", "success"} =>
               stmts = PyList(<<>>)
        /\ \A i \in 1..Len(raised) :
               raised[i].cls = "OSError" \/ raised[i].msg = "render failed"

C7_Witness ==
    /\ raw = Framed(PickleNoneList, FramedStart)
    /\ pc = "mkdir"
    /\ handed.data = PickleStream
    /\ stmts = PyList(<<>>)

\* C8: the stages start in the order read, decompress, deserialize, mkdir,
\* open output, render; the output side is touched only once reading,
\* decompression and deserialization have succeeded, and after a failure of
\* one of those no later stage starts and nothing is created, truncated or
\* rendered.
StageOrder ==
    <<"read", "decompress", "deserialize", "mkdir", "open_output", "render">>

C8_FailFast ==
    /\ Len(stages) <= Len(StageOrder)
    /\ \A i \in 1..Len(stages) : stages[i] = StageOrder[i]
    /\ (out_dir_made \/ out_file_opened \/ renderer_calls > 0) =>
           /\ stmts # Unset
           /\ handed.called
           /\ Len(stages) >= 4
    /\ out_file_opened => out_dir_made
    /\ renderer_calls > 0 => out_file_opened
    /\ renderer_calls <= 1
    /\ (raised # <<>> /\ stmts = Unset) =>
           /\ Len(stages) <= 3
           /\ ~out_dir_made
           /\ ~out_file_opened
           /\ renderer_calls = 0
    /\ Len(raised) <= 1

\* deserialization failed and the run ended with the output side untouched
C8_Witness ==
    /\ pc = "exited"
    /\ stages = <<"read", "decompress", "deserialize">>
    /\ raised # <<>>
    /\ ~out_dir_made
    /\ renderer_calls = 0

\* C9: decompile_file always returns its result; success is true exactly when
\* no stage raised and rendering was done, otherwise success is false and the
\* error is the message of the first failure; main exits 0 exactly on success.
C9_StructuredResult ==
    /\ pc # "crashed"
    /\ pc = "return" => exc = NoExc
    /\ Finished =>
           /\ result.success <=> (raised = <<>> /\ stages = StageOrder)
           /\ result.success => ~result.has_error
           /\ ~result.success =>
                  /\ raised # <<>>
                  /\ result.has_error
                  /\ result.error = raised[1].msg
    /\ pc = "exited" => exit_code = IF result.success THEN 0 ELSE 1
    /\ pc # "exited" => exit_code = -1

\* a decompression failure reported as a result
C9_Witness ==
    /\ pc = "exited"
    /\ ~result.success
    /\ result.has_error
    /\ raised[1].cls = "zlib.error"
    /\ result.error = "incomplete or truncated stream"
    /\ exit_code = 1

\* C10: the scan starts at offset 10, moves 12 bytes per record with a
\* non-zero slot and stops at the first zero slot; the payload is
\* raw[start : start + length] of the last slot-1 record in front of that
\* terminator, whatever follows the terminator and whatever other slots hold.
C10_SlotSelection ==
    fmt = "v2" =>
        /\ pc = "scan" =>
               /\ position = 10 + 12 * reads
               /\ \A k \in 0..(reads - 1) : ~SlotIsZero(k)
        /\ pc = "select" =>
               /\ RawTerminated
               /\ reads = FirstZero + 1
               /\ position = 10 + 12 * FirstZero
        /\ pc = "decompress" =>
               /\ RawTerminated
               /\ DataRecords # {}
               /\ contents = Extract(LastData)
        /\ handed.called => handed.data = Extract(LastData)

\* two slot-1 records with different extents, and bytes after the terminator
C10_Witness ==
    /\ fmt = "v2"
    /\ pc = "decompress"
    /\ Cardinality(DataRecords) >= 2
    /\ \E k \in DataRecords : Extract(k) # Extract(LastData)
    /\ FirstZero + 1 < WholeRecords
    /\ contents = Extract(LastData)
    /\ contents # <<>>

====
